---- MODULE Spec2Model ----
(***************************************************************************)
(* A model of cogvideox/ui/ui.py: the CogVideoX_I2VController session      *)
(* (checkpoint, base weights, LoRA), its generate handler with the         *)
(* request validation, the LoRA merge/unmerge bracket, the single-shot     *)
(* dispatch and the long-video chunked loop with overlap blending, and     *)
(* the artifact and log writes that follow a generation.                   *)
(***************************************************************************)
EXTENDS Integers, Sequences, FiniteSets, TLC

VARIABLES
    vae,              \* self.vae: the checkpoint its object was loaded from, "none" for None
    transformer,      \* self.transformer: the id of its object in heap, 0 for None
    pipeline,         \* self.pipeline: a record, NoPipeline for None
    heap,             \* transformer objects by id: checkpoint, base weights applied, LoRA merged
    base_model_path,  \* self.base_model_path
    lora_model_path,  \* self.lora_model_path
    logs,             \* the records appended to logs.json
    files,            \* the entries of savedir_sample, in the order they were written
    lastLoad,         \* the update_diffusion_transformer calls so far, and how the last one ended
    attempts,         \* generate calls made so far
    callers,          \* the call slots in use: the handler invocations that may be in flight
    controller,       \* the class of the controller the interface was built around
    pc,               \* per call: the position in generate
    req,              \* per call: the arguments of generate
    loc,              \* per call: the locals of generate
    ev,               \* per call: what the attempt has done so far, in order
    pipes,            \* per call: the pipeline invocations of the attempt, in order
    out               \* per call: how the attempt ended

vars == <<vae, transformer, pipeline, heap, base_model_path, lora_model_path, logs,
          files, lastLoad, attempts, callers, controller, pc, req, loc, ev, pipes, out>>

session == <<vae, transformer, pipeline, heap, base_model_path, lora_model_path>>

-----------------------------------------------------------------------------
(* Bounds of the model *)

MaxLoads == 2
MaxAttempts == 2
MaxLen == 14
MaxPartial == 7
MaxOverlap == 4
MaxChunks == 13

-----------------------------------------------------------------------------
(* The checkpoints on disk and what their config.json files declare *)

Checkpoints == {"t2v", "i2v"}

Config ==
    [t2v |-> [in_channels |-> 16, latent_channels |-> 16, temporal_compression_ratio |-> 4],
     i2v |-> [in_channels |-> 33, latent_channels |-> 16, temporal_compression_ratio |-> 4]]

BaseModels == {"base.safetensors"}
LoraModels == {"lora.safetensors"}
LoraAlphas == {1, 2}

personalized_model_dir == "models/Personalized_Model/"

\* A file name or path is a tuple of its components; the dropdowns' "none" is None_
None_ == <<"none">>

\* os.path.join(dir, name)
Join(dir, name) == <<dir>> \o name

LoraPaths == {Join(personalized_model_dir, <<l>>) : l \in LoraModels}

\* the LoRA deltas blended into a set of weights: the net multiplier of each LoRA file
NoLora == [p \in LoraPaths |-> 0]

NoPipeline == [kind |-> "none", ckpt |-> "none", tid |-> 0, vae |-> "none", scheduler |-> "none"]

Samplers == {"Euler", "DDIM_Cog"}

\* the controller of ui() and the controller of ui_modelscope()
Local == "CogVideoX_I2VController"

Modelscope == "CogVideoX_I2VController_Modelscope"

Calls == {1, 2}

-----------------------------------------------------------------------------
(* The session: __init__, update_diffusion_transformer, update_base_model, *)
(* update_lora_model                                                       *)

in_channels(tid) == Config[heap[tid].ckpt].in_channels

latent_channels(v) == Config[v].latent_channels

temporal_compression_ratio(v) == Config[v].temporal_compression_ratio

\* self.transformer.config.in_channels != self.vae.config.latent_channels
ImageCapable == in_channels(transformer) # latent_channels(vae)

Idle == \A c \in callers : pc[c] = "idle"

LoadSteps == <<"vae", "transformer", "pipeline", "offload", "done">>

StepNo(step) == CHOOSE i \in 1..Len(LoadSteps) : LoadSteps[i] = step

\* The statements of update_diffusion_transformer that ran before the one that
\* raised: the load stops at `fail` ("done": nothing raised).
Ran(step, fail) == StepNo(step) < StepNo(fail)

NewTransformer(d) == [ckpt |-> d, base |-> {}, lora |-> NoLora]

NewPipeline(d, tid) ==
    [kind |-> IF Config[d].in_channels # Config[d].latent_channels THEN "inpaint" ELSE "plain",
     ckpt |-> d, tid |-> tid, vae |-> d, scheduler |-> "Euler"]

update_diffusion_transformer(d, fail) ==
    /\ controller = Local
    /\ Idle
    /\ lastLoad.n < MaxLoads
    /\ IF d = "none"
       THEN /\ fail = "done"
            /\ lastLoad' = [n |-> lastLoad.n + 1, status |-> "skipped"]
            /\ UNCHANGED <<vae, transformer, pipeline, heap>>
       ELSE /\ vae' = IF Ran("vae", fail) THEN d ELSE vae
            /\ heap' = IF Ran("transformer", fail) THEN Append(heap, NewTransformer(d)) ELSE heap
            /\ transformer' = IF Ran("transformer", fail) THEN Len(heap) + 1 ELSE transformer
            /\ pipeline' = IF Ran("pipeline", fail) THEN NewPipeline(d, Len(heap) + 1) ELSE pipeline
            /\ lastLoad' = [n |-> lastLoad.n + 1,
                            status |-> IF fail = "done" THEN "ok" ELSE "failed"]
    /\ UNCHANGED <<base_model_path, lora_model_path, logs, files, attempts, callers, controller,
                   pc, req, loc, ev, pipes, out>>

\* update_base_model(base_model_dropdown): what it leaves in self.base_model_path
BasePathAfter(b) == b

\* update_base_model: the transformer objects after it
HeapAfterBase(b) ==
    IF b = None_ \/ transformer = 0
    THEN heap
    ELSE [heap EXCEPT ![transformer].base = @ \cup {Join(personalized_model_dir, b)}]

update_base_model(b) ==
    /\ controller = Local
    /\ Idle
    /\ base_model_path' = BasePathAfter(b)
    /\ heap' = HeapAfterBase(b)
    /\ UNCHANGED <<vae, transformer, pipeline, lora_model_path, logs, files, lastLoad,
                   attempts, callers, controller, pc, req, loc, ev, pipes, out>>

\* update_lora_model(lora_model_dropdown): what it leaves in self.lora_model_path
LoraPathAfter(l) == IF l = None_ THEN None_ ELSE Join(personalized_model_dir, l)

update_lora_model(l) ==
    /\ Idle
    /\ lora_model_path' = LoraPathAfter(l)
    /\ UNCHANGED <<vae, transformer, pipeline, heap, base_model_path, logs, files, lastLoad,
                   attempts, callers, controller, pc, req, loc, ev, pipes, out>>

-----------------------------------------------------------------------------
(* generate: the arguments, the messages, how an attempt ends *)

Seeds == {"43", "-1", ""}

\* int(seed_textbox) raises ValueError on these
Unparsable(seed) == seed \notin {"43", "-1"}

MsgNoModel == "Please select a pretrained model path."
MsgNoReference == "Please upload an image when using Resize according to Reference."
MsgNotI2V == "Please select an image to video pretrained model while using image to video."
MsgNotLong == "Please select an image to video pretrained model while using long video generation."
MsgNoStart == "If specifying the ending image of the video, please specify a starting image of the video."
MsgV2VLong == "Video to Video is not Support Long Video Generation now."
MsgError == "Error. error information is"

NoOutcome == [kind |-> "none", exc |-> "none", msg |-> "", detail |-> "", artifact |-> 0]

\* return ..., msg
Return(msg, detail, artifact) ==
    [kind |-> "return", exc |-> "none", msg |-> msg, detail |-> detail, artifact |-> artifact]

\* an exception that leaves generate
Raise(exc, msg) == [kind |-> "raise", exc |-> exc, msg |-> msg, detail |-> "", artifact |-> 0]

\* if is_api: return "", msg   else: raise gr.Error(msg)
\* (the Modelscope controller raises gr.Error whatever is_api is)
Reject(r, msg) ==
    IF controller = Local /\ r.is_api THEN Return(msg, "", 0) ELSE Raise("gr.Error", msg)

Names(S) == {None_} \cup {<<n>> : n \in S}

Request(b, l, a, resize, method, L, P, V, start, end, video, seed, api) ==
    [base_model_dropdown |-> b, lora_model_dropdown |-> l, lora_alpha_slider |-> a,
     sampler_dropdown |-> "DDIM_Cog", resize_method |-> resize, generation_method |-> method,
     length_slider |-> L, partial_video_length |-> P, overlap_video_length |-> V,
     start_image |-> start, end_image |-> end, validation_video |-> video,
     seed_textbox |-> seed, is_api |-> api]

NoRequest ==
    Request(None_, None_, 1, "Generate by", "Video Generation", 1, 1, 1, "none", "none", "none",
            "", FALSE)

NoImage == [kind |-> "none", frames |-> <<>>]

NoLocals ==
    [size |-> "sliders", is_image |-> FALSE, seed |-> "", start_image |-> NoImage,
     init_frames |-> 0, last_frames |-> 0, sample |-> <<>>, new_sample |-> <<>>,
     error |-> "", logs0 |-> 0, files0 |-> 0]

Emit(c, e) == ev' = [ev EXCEPT ![c] = @ \o e]

Goto(c, label) == pc' = [pc EXCEPT ![c] = label]

\* generate returns or raises: the attempt is over
End(c, o) ==
    /\ pc' = [pc EXCEPT ![c] = "done"]
    /\ out' = [out EXCEPT ![c] = o]

\* generate_button.click (or the API's call): generate starts with arguments from R
Submit(c, R) ==
    /\ pc[c] = "idle"
    /\ attempts < MaxAttempts
    /\ attempts' = attempts + 1
    /\ \E r \in R :
          /\ req' = [req EXCEPT ![c] = r]
          /\ loc' = [loc EXCEPT ![c] =
                       [NoLocals EXCEPT !.start_image =
                                           IF r.start_image = "none" THEN NoImage
                                           ELSE [kind |-> "file", frames |-> <<>>],
                                        !.logs0 = Len(logs), !.files0 = Len(files)]]
    /\ ev' = [ev EXCEPT ![c] = <<>>]
    /\ pipes' = [pipes EXCEPT ![c] = <<>>]
    /\ out' = [out EXCEPT ![c] = NoOutcome]
    /\ Goto(c, "enter")
    /\ UNCHANGED <<session, logs, files, lastLoad, callers, controller>>

\* the caller has the outcome: the frame of the call is gone
Respond(c) ==
    /\ pc[c] = "done"
    /\ Goto(c, "idle")
    /\ req' = [req EXCEPT ![c] = NoRequest]
    /\ loc' = [loc EXCEPT ![c] = NoLocals]
    /\ ev' = [ev EXCEPT ![c] = <<>>]
    /\ pipes' = [pipes EXCEPT ![c] = <<>>]
    /\ out' = [out EXCEPT ![c] = NoOutcome]
    /\ UNCHANGED <<session, logs, files, lastLoad, attempts, callers, controller>>

\* lines 198-203: reclaim memory, then refuse to run without a checkpoint
Enter(c) ==
    /\ pc[c] = "enter"
    /\ Emit(c, <<"gc">>)
    /\ IF transformer = 0
       THEN End(c, Raise("gr.Error", MsgNoModel))
       ELSE Goto(c, IF controller = Local THEN "base" ELSE "lora") /\ UNCHANGED out
    /\ UNCHANGED <<session, logs, files, lastLoad, attempts, callers, controller, req, loc, pipes>>

\* lines 205-206: apply the base weights the request names, if not the recorded ones
SyncBase(c) ==
    /\ pc[c] = "base"
    /\ IF base_model_path # req[c].base_model_dropdown
       THEN /\ base_model_path' = BasePathAfter(req[c].base_model_dropdown)
            /\ heap' = HeapAfterBase(req[c].base_model_dropdown)
       ELSE UNCHANGED <<base_model_path, heap>>
    /\ Goto(c, "lora")
    /\ UNCHANGED <<vae, transformer, pipeline, lora_model_path, logs, files, lastLoad,
                   attempts, callers, controller, req, loc, ev, pipes, out>>

\* lines 208-210: stage the LoRA the request names, if not the recorded one
SyncLora(c) ==
    /\ pc[c] = "lora"
    /\ lora_model_path' = IF lora_model_path # req[c].lora_model_dropdown
                          THEN LoraPathAfter(req[c].lora_model_dropdown)
                          ELSE lora_model_path
    /\ Goto(c, "validate")
    /\ UNCHANGED <<vae, transformer, pipeline, heap, base_model_path, logs, files, lastLoad,
                   attempts, callers, controller, req, loc, ev, pipes, out>>

\* the validation with the end-image rule asking for an end image
Validate_EndRequired(r, image_capable) ==
    IF r.resize_method = "Resize according to Reference"
       /\ r.start_image = "none" /\ r.validation_video = "none"
    THEN MsgNoReference
    ELSE IF ~image_capable /\ r.start_image # "none"
    THEN MsgNotI2V
    ELSE IF ~image_capable /\ r.generation_method = "Long Video Generation"
    THEN MsgNotLong
    ELSE IF r.start_image = "none" /\ r.end_image # "none"
    THEN MsgNoStart
    ELSE IF r.start_image # "none" /\ r.end_image = "none"
    THEN MsgNoStart
    ELSE ""

\* the validation with the end-image rule ahead of the long-video rule
Validate_EndRuleFirst(r, image_capable) ==
    IF r.resize_method = "Resize according to Reference"
       /\ r.start_image = "none" /\ r.validation_video = "none"
    THEN MsgNoReference
    ELSE IF ~image_capable /\ r.start_image # "none"
    THEN MsgNotI2V
    ELSE IF r.start_image = "none" /\ r.end_image # "none"
    THEN MsgNoStart
    ELSE IF ~image_capable /\ r.generation_method = "Long Video Generation"
    THEN MsgNotLong
    ELSE ""

\* the validation without the long-video rule of lines 234-238
Validate_NoLongRule(r, image_capable) ==
    IF r.resize_method = "Resize according to Reference"
       /\ r.start_image = "none" /\ r.validation_video = "none"
    THEN MsgNoReference
    ELSE IF ~image_capable /\ r.start_image # "none"
    THEN MsgNotI2V
    ELSE IF r.start_image = "none" /\ r.end_image # "none"
    THEN MsgNoStart
    ELSE ""

\* lines 212-244: the message of the rejection, "" when the request passes
Validate(r, image_capable) ==
    IF r.resize_method = "Resize according to Reference"
       /\ r.start_image = "none" /\ r.validation_video = "none"
    THEN MsgNoReference
    ELSE IF ~image_capable /\ r.start_image # "none"
    THEN MsgNotI2V
    ELSE IF ~image_capable /\ r.generation_method = "Long Video Generation"
    THEN MsgNotLong
    ELSE IF r.start_image = "none" /\ r.end_image # "none"
    THEN MsgNoStart
    ELSE ""

\* lines 751-768: the validation of the Modelscope controller
Validate_Modelscope(r, image_capable) ==
    IF r.resize_method = "Resize according to Reference"
       /\ r.start_image = "none" /\ r.validation_video = "none"
    THEN MsgNoReference
    ELSE IF ~image_capable /\ r.start_image # "none"
    THEN MsgNotI2V
    ELSE IF r.start_image = "none" /\ r.end_image # "none"
    THEN MsgNoStart
    ELSE ""

\* lines 212-244: reject, or pass with the width and height settled
Validation(c) ==
    /\ pc[c] = "validate"
    /\ LET msg == IF controller = Local THEN Validate(req[c], ImageCapable)
                  ELSE Validate_Modelscope(req[c], ImageCapable) IN
       IF msg # ""
       THEN End(c, Reject(req[c], msg)) /\ UNCHANGED loc
       ELSE /\ Goto(c, "scheduler")
            /\ loc' = [loc EXCEPT ![c].size =
                         IF req[c].resize_method = "Resize according to Reference"
                         THEN "reference" ELSE "sliders"]
            /\ UNCHANGED out
    /\ UNCHANGED <<session, logs, files, lastLoad, attempts, callers, controller, req, ev, pipes>>

\* lines 246-248: is_image, and the sampler rebuilt from the pipeline's scheduler config
Scheduler(c) ==
    /\ pc[c] = "scheduler"
    /\ loc' = [loc EXCEPT ![c].is_image = (req[c].generation_method = "Image Generation")]
    /\ IF pipeline = NoPipeline
       THEN \* self.pipeline is None
            /\ End(c, Raise("AttributeError", "'NoneType' object has no attribute 'scheduler'"))
            /\ UNCHANGED <<pipeline, ev>>
       ELSE /\ pipeline' = [pipeline EXCEPT !.scheduler = req[c].sampler_dropdown]
            /\ Emit(c, <<"scheduler">>)
            /\ Goto(c, "merge")
            /\ UNCHANGED out
    /\ UNCHANGED <<vae, transformer, heap, base_model_path, lora_model_path, logs, files,
                   lastLoad, attempts, callers, controller, req, pipes>>

\* merge_lora(pipeline, path, multiplier): the weights of the pipeline's transformer after it
merge_lora(h, tid, path, multiplier) == [h EXCEPT ![tid].lora[path] = @ + multiplier]

\* unmerge_lora(pipeline, path, multiplier)
unmerge_lora(h, tid, path, multiplier) == [h EXCEPT ![tid].lora[path] = @ - multiplier]

\* lines 249-251
Merge(c) ==
    /\ pc[c] = "merge"
    /\ IF lora_model_path # None_
       THEN /\ heap' = merge_lora(heap, pipeline.tid, lora_model_path, req[c].lora_alpha_slider)
            /\ Emit(c, <<"merge">>)
       ELSE UNCHANGED <<heap, ev>>
    /\ Goto(c, "seed")
    /\ UNCHANGED <<vae, transformer, pipeline, base_model_path, lora_model_path, logs, files,
                   lastLoad, attempts, callers, controller, req, loc, pipes, out>>

\* lines 253-255: the seed, parsed before the try block is entered
Seed(c) ==
    /\ pc[c] = "seed"
    /\ IF Unparsable(req[c].seed_textbox)
       THEN End(c, Raise("ValueError", "invalid literal for int()")) /\ UNCHANGED loc
       ELSE /\ loc' = [loc EXCEPT ![c].seed = IF req[c].seed_textbox = "-1" THEN "random"
                                              ELSE req[c].seed_textbox]
            /\ Goto(c, "try")
            /\ UNCHANGED out
    /\ UNCHANGED <<session, logs, files, lastLoad, attempts, callers, controller, req, ev, pipes>>

-----------------------------------------------------------------------------
(* generate: the try block. Frames, pipeline calls, the chunked loop *)

\* frame j of the k-th pipeline output of the attempt
Raw(k, j) == [k |-> k, j |-> j, w |-> 1, d |-> 1, prev |-> <<>>]

\* old * (1 - i / V) + new * (i / V)
Mix(old, new, i, V) == [k |-> new.k, j |-> new.j, w |-> i, d |-> V, prev |-> <<old>>]

\* self.pipeline(...).videos with num_frames = n
Videos(k, n) == [j \in 1..n |-> Raw(k, j - 1)]

\* x[:, :, -n:], x[:, :, :n], x[:, :, n:] for n > 0
SliceLast(x, n) == IF n >= Len(x) THEN x ELSE SubSeq(x, Len(x) - n + 1, Len(x))

SliceFirst(x, n) == IF n >= Len(x) THEN x ELSE SubSeq(x, 1, n)

SliceFrom(x, n) == IF n >= Len(x) THEN <<>> ELSE SubSeq(x, n + 1, Len(x))

\* Image.fromarray((frame * 255).numpy().astype(np.uint8))
ToImage(frame) == [uint8 |-> frame]

\* one pipeline invocation, as the pipeline sees it
PipeCall(n, payload, start, end, strength, raised) ==
    [num_frames |-> n, payload |-> payload, start_image |-> start, end_image |-> end,
     strength |-> strength, kind |-> pipeline.kind, tid |-> pipeline.tid,
     scheduler |-> pipeline.scheduler, lora |-> heap[pipeline.tid].lora, raised |-> raised]

\* the final chunk rounded up to 1 modulo r
ChunkLength_RoundsUp(L, P, init, last, r) ==
    IF last >= L THEN ((L - init - 1 + r - 1) \div r) * r + 1 ELSE P

\* the final chunk rounded down to a multiple of r
ChunkLength_Multiple(L, P, init, last, r) ==
    IF last >= L THEN ((L - init) \div r) * r ELSE P

\* the final chunk without its rounding to 1 modulo r
ChunkLength_NoRounding(L, P, init, last, r) == IF last >= L THEN L - init ELSE P

\* lines 266-272: the frame count of the chunk at cursor init
ChunkLength(L, P, init, last, r) ==
    IF last >= L THEN ((L - init - 1) \div r) * r + 1 ELSE P

\* the end image handed to every chunk
ChunkEnd_EveryChunk(L, last, end_image) == end_image

\* lines 274-277: the end image the chunk is conditioned on
ChunkEnd(L, last, end_image) == IF last >= L THEN end_image ELSE "none"

\* lines 296-301: whether the shapes of the blend broadcast
Broadcasts(new_sample, sample, V) ==
    /\ Len(SliceLast(new_sample, V)) = V
    /\ Len(SliceFirst(sample, V)) \in {1, V}

\* the chunk appended whole, its first V frames beside the frames they overlap
Blend_AppendsWhole(new_sample, sample, V) == new_sample \o sample

\* the blend with weights 1/V .. V/V for the new chunk
Blend_FullAtLast(new_sample, sample, V) ==
    LET old == SliceLast(new_sample, V)
        new == SliceFirst(sample, V)
        mixed == [i \in 1..V |-> Mix(old[i], new[IF Len(new) = 1 THEN 1 ELSE i], i, V)]
    IN SubSeq(new_sample, 1, Len(new_sample) - V) \o mixed \o SliceFrom(sample, V)

\* lines 296-302: the accumulated sequence after the chunk is blended in and appended
Blend(new_sample, sample, V) ==
    LET old == SliceLast(new_sample, V)
        new == SliceFirst(sample, V)
        mixed == [i \in 1..V |-> Mix(old[i], new[IF Len(new) = 1 THEN 1 ELSE i], i - 1, V)]
    IN SubSeq(new_sample, 1, Len(new_sample) - V) \o mixed \o SliceFrom(sample, V)

\* the cursor moved by the whole chunk
Advance_WholeChunk(init, n, V) == init + n

\* line 317: the cursor after a chunk of n frames
Advance(init, n, V) == init + n - V

\* the next chunk's start images taken from the frames the pipeline returned
NextStart_Raw(sample, V) ==
    [kind |-> "frames",
     frames |-> [i \in 1..V |-> ToImage(Raw(sample[Len(sample) - V + i].k,
                                            sample[Len(sample) - V + i].j))]]

\* lines 311-315: the next chunk's start images
NextStart(sample, V) ==
    [kind |-> "frames",
     frames |-> [i \in 1..V |-> ToImage(sample[Len(sample) - V + i])]]

\* lines 257-262 and 319, 341: entering the try block
Dispatch(c) ==
    /\ pc[c] = "try"
    /\ IF ImageCapable
       THEN IF controller = Local /\ req[c].generation_method = "Long Video Generation"
            THEN IF req[c].validation_video # "none"
                 THEN /\ Goto(c, "except")
                      /\ loc' = [loc EXCEPT ![c].error = MsgV2VLong]
                 ELSE /\ Goto(c, "loop")
                      /\ loc' = [loc EXCEPT ![c].init_frames = 0,
                                            ![c].last_frames = req[c].partial_video_length]
            ELSE Goto(c, "inpaint") /\ UNCHANGED loc
       ELSE Goto(c, "plain") /\ UNCHANGED loc
    /\ UNCHANGED <<session, logs, files, lastLoad, attempts, callers, controller, req, ev, pipes, out>>

\* the arguments of the single call of lines 320-340 (inpaint) or 342-351 (plain)
SingleCall(c, raised) ==
    LET n == IF loc[c].is_image THEN 1 ELSE req[c].length_slider IN
    IF pc[c] = "plain"
    THEN PipeCall(n, "none", NoImage, "none", "none", raised)
    ELSE IF req[c].validation_video # "none"
    THEN PipeCall(n, "video", NoImage, "none", "denoise_strength", raised)
    ELSE PipeCall(n, "image", loc[c].start_image, req[c].end_image, "1", raised)

\* lines 320-351: the single-shot call returns
SingleShot(c) ==
    /\ pc[c] \in {"inpaint", "plain"}
    /\ pipes' = [pipes EXCEPT ![c] = Append(@, SingleCall(c, FALSE))]
    /\ loc' = [loc EXCEPT ![c].sample = Videos(1, SingleCall(c, FALSE).num_frames)]
    /\ Emit(c, <<"pipeline">>)
    /\ Goto(c, "post")
    /\ UNCHANGED <<session, logs, files, lastLoad, attempts, callers, controller, req, out>>

\* lines 320-351: the single-shot call raises
SingleShotRaises(c) ==
    /\ pc[c] \in {"inpaint", "plain"}
    /\ pipes' = [pipes EXCEPT ![c] = Append(@, SingleCall(c, TRUE))]
    /\ loc' = [loc EXCEPT ![c].error = "pipeline"]
    /\ Emit(c, <<"pipeline">>)
    /\ Goto(c, "except")
    /\ UNCHANGED <<session, logs, files, lastLoad, attempts, callers, controller, req, out>>

\* the arguments of the chunk's call, lines 264-293
ChunkCall(c, raised) ==
    LET L == req[c].length_slider
        n == ChunkLength(L, req[c].partial_video_length, loc[c].init_frames,
                         loc[c].last_frames, temporal_compression_ratio(vae))
    IN PipeCall(n, "image", loc[c].start_image,
                ChunkEnd(L, loc[c].last_frames, req[c].end_image), "1", raised)

\* lines 264-318: one iteration of the while loop whose pipeline call returns
LongChunk(c) ==
    LET L == req[c].length_slider
        V == req[c].overlap_video_length
        call == ChunkCall(c, FALSE)
        n == call.num_frames
        sample == Videos(Len(pipes[c]) + 1, n)
        first == loc[c].init_frames = 0
        blended == IF first THEN sample ELSE Blend(loc[c].new_sample, sample, V)
    IN
    /\ pc[c] = "loop"
    /\ Len(pipes[c]) < MaxChunks
    /\ IF loc[c].init_frames >= L \/ n <= 0
       THEN \* the while condition fails, or the break of line 270
            /\ Goto(c, "post")
            /\ UNCHANGED <<loc, pipes, ev>>
       ELSE /\ pipes' = [pipes EXCEPT ![c] = Append(@, call)]
            /\ Emit(c, <<"pipeline">>)
            /\ IF ~first /\ ~Broadcasts(loc[c].new_sample, sample, V)
               THEN /\ Goto(c, "except")
                    /\ loc' = [loc EXCEPT ![c].error = "RuntimeError: size of tensors must match",
                                          ![c].sample = sample]
               ELSE IF loc[c].last_frames >= L
               THEN /\ Goto(c, "post")
                    /\ loc' = [loc EXCEPT ![c].sample = blended, ![c].new_sample = blended]
               ELSE IF V > Len(blended)
               THEN /\ Goto(c, "except")
                    /\ loc' = [loc EXCEPT ![c].error = "IndexError: index out of range",
                                          ![c].sample = blended, ![c].new_sample = blended]
               ELSE /\ Goto(c, "loop")
                    /\ loc' = [loc EXCEPT ![c].sample = blended, ![c].new_sample = blended,
                                          ![c].start_image = NextStart(blended, V),
                                          ![c].init_frames = Advance(loc[c].init_frames, n, V),
                                          ![c].last_frames = Advance(loc[c].init_frames, n, V) + n]
    /\ UNCHANGED <<session, logs, files, lastLoad, attempts, callers, controller, req, out>>

\* the chunk's pipeline call raises and the loop tries the chunk again
LongChunkRaises_Retries(c) ==
    /\ pc[c] = "loop"
    /\ Len(pipes[c]) < MaxChunks
    /\ loc[c].init_frames < req[c].length_slider
    /\ ChunkCall(c, TRUE).num_frames > 0
    /\ pipes' = [pipes EXCEPT ![c] = Append(@, ChunkCall(c, TRUE))]
    /\ Emit(c, <<"pipeline">>)
    /\ Goto(c, "loop")
    /\ UNCHANGED <<session, logs, files, lastLoad, attempts, callers, controller, req, loc, out>>

\* lines 279-293: the chunk's pipeline call raises
LongChunkRaises(c) ==
    /\ pc[c] = "loop"
    /\ Len(pipes[c]) < MaxChunks
    /\ loc[c].init_frames < req[c].length_slider
    /\ ChunkCall(c, TRUE).num_frames > 0
    /\ pipes' = [pipes EXCEPT ![c] = Append(@, ChunkCall(c, TRUE))]
    /\ loc' = [loc EXCEPT ![c].error = "pipeline"]
    /\ Emit(c, <<"pipeline">>)
    /\ Goto(c, "except")
    /\ UNCHANGED <<session, logs, files, lastLoad, attempts, callers, controller, req, out>>

\* the handler without its unmerge
Except_NoUnmerge(c) ==
    /\ pc[c] = "except"
    /\ Emit(c, <<"gc">>)
    /\ End(c, Return(MsgError, loc[c].error, 0))
    /\ UNCHANGED <<session, logs, files, lastLoad, attempts, callers, controller, req, loc, pipes>>

\* lines 352-361: the handler of the try block
Except(c) ==
    /\ pc[c] = "except"
    /\ IF lora_model_path # None_
       THEN /\ heap' = unmerge_lora(heap, pipeline.tid, lora_model_path, req[c].lora_alpha_slider)
            /\ Emit(c, <<"gc", "unmerge">>)
       ELSE /\ Emit(c, <<"gc">>)
            /\ UNCHANGED heap
    /\ End(c, Return(MsgError, loc[c].error, 0))
    /\ UNCHANGED <<vae, transformer, pipeline, base_model_path, lora_model_path, logs, files,
                   lastLoad, attempts, callers, controller, req, loc, pipes>>

\* lines 363-369: reclaim memory and unmerge after the try block
Post(c) ==
    /\ pc[c] = "post"
    /\ IF lora_model_path # None_
       THEN /\ heap' = unmerge_lora(heap, pipeline.tid, lora_model_path, req[c].lora_alpha_slider)
            /\ Emit(c, <<"gc", "unmerge">>)
       ELSE /\ Emit(c, <<"gc">>)
            /\ UNCHANGED heap
    /\ Goto(c, IF controller = Local THEN "log" ELSE "save")
    /\ UNCHANGED <<vae, transformer, pipeline, base_model_path, lora_model_path, logs, files,
                   lastLoad, attempts, callers, controller, req, loc, pipes, out>>

\* lines 371-385: the record appended to logs.json
Log(c) ==
    /\ pc[c] = "log"
    /\ logs' = Append(logs, [sampler |-> req[c].sampler_dropdown, size |-> loc[c].size,
                             video_length |-> req[c].length_slider,
                             seed_textbox |-> loc[c].seed])
    /\ Emit(c, <<"log">>)
    /\ Goto(c, "save")
    /\ UNCHANGED <<session, files, lastLoad, attempts, callers, controller, req, loc, pipes, out>>

RECURSIVE Digits(_)
\* str(n) for n >= 0, as the tuple of its decimal digits
Digits(n) == IF n < 10 THEN <<n>> ELSE Digits(n \div 10) \o <<n % 10>>

RECURSIVE Zfill(_, _)
\* s.zfill(width)
Zfill(s, width) == IF Len(s) >= width THEN s ELSE Zfill(<<0>> \o s, width)

\* the name an artifact is written under
Name(f) == <<f.prefix, f.ext>>

\* os.listdir(self.savedir_sample): a write under an existing name replaces the file
Listdir == {Name(files[i]) : i \in 1..Len(files)}

\* the prefix taken from the number of writes made so far
Prefix_FromWrites == Zfill(Digits(Len(files)), 3)

\* lines 387-390: prefix
Prefix == Zfill(Digits(Cardinality(Listdir) + 1), 3)

\* the artifact chosen by the frame count alone
Artifact_ByLengthOnly(c) ==
    IF req[c].length_slider = 1
    THEN [prefix |-> Prefix, ext |-> "png", fps |-> 0, frames |-> 1]
    ELSE [prefix |-> Prefix, ext |-> "mp4", fps |-> 8, frames |-> Len(loc[c].sample)]

\* lines 395-413: the artifact written
Artifact(c) ==
    IF loc[c].is_image \/ req[c].length_slider = 1
    THEN [prefix |-> Prefix, ext |-> "png", fps |-> 0, frames |-> 1]
    ELSE [prefix |-> Prefix, ext |-> "mp4", fps |-> 8, frames |-> Len(loc[c].sample)]

\* lines 387-421: the artifact is written and generate returns "Success"
Save(c) ==
    /\ pc[c] = "save"
    /\ files' = Append(files, Artifact(c))
    /\ Emit(c, <<"gc", "file">>)
    /\ End(c, Return("Success", "", Len(files) + 1))
    /\ UNCHANGED <<session, logs, lastLoad, attempts, callers, controller, req, loc, pipes>>

\* lines 387-413: writing the artifact raises (image.save, save_videos_grid)
SaveRaises(c) ==
    /\ pc[c] = "save"
    /\ Emit(c, <<"gc">>)
    /\ End(c, Raise("OSError", "save"))
    /\ UNCHANGED <<session, logs, files, lastLoad, attempts, callers, controller, req, loc, pipes>>

-----------------------------------------------------------------------------
(* The requests, the initial states and the specifications *)

ResizeMethods == {"Generate by", "Resize according to Reference"}

GenerationMethods == {"Video Generation", "Image Generation", "Long Video Generation"}

\* what the session's handlers are called with: every combination of the choices that
\* decide the control flow of generate, with one long-video geometry
Requests ==
    {Request(b, l, a, resize, method, L, 5, 2, start, end, video, seed, api) :
        b \in Names(BaseModels), l \in Names(LoraModels), a \in LoraAlphas,
        resize \in ResizeMethods, method \in GenerationMethods, L \in {1, 9},
        start \in {"none", "start.png"}, end \in {"none", "end.png"},
        video \in {"none", "video.mp4"}, seed \in Seeds, api \in BOOLEAN}

\* what the Modelscope interface calls generate with: it offers no long-video mode and
\* no base model
RequestsModelscope ==
    {r \in Requests : /\ r.generation_method # "Long Video Generation"
                      /\ r.base_model_dropdown = None_}

\* the requests of the session's life: the choices that touch the session
SessionRequests ==
    {Request(b, l, 1, "Generate by", method, 9, 5, 2, "none", "none", "none", seed, TRUE) :
        b \in Names(BaseModels), l \in Names(LoraModels),
        method \in {"Video Generation", "Long Video Generation"}, seed \in {"43", ""}}

\* the long-video requests: every geometry within the bounds
LongRequests ==
    {Request(None_, l, a, "Generate by", "Long Video Generation", L, P, V, start, end, "none",
             "43", TRUE) :
        l \in Names(LoraModels), a \in LoraAlphas,
        L \in 1..MaxLen, P \in 1..MaxPartial, V \in 1..MaxOverlap,
        start \in {"none", "start.png"}, end \in {"none", "end.png"}}

\* the state after __init__, lines 62-92
Init ==
    /\ vae = "none"
    /\ transformer = 0
    /\ pipeline = NoPipeline
    /\ heap = <<>>
    /\ base_model_path = None_
    /\ lora_model_path = None_
    /\ logs = <<>>
    /\ files = <<>>
    /\ lastLoad = [n |-> 0, status |-> "none"]
    /\ attempts = 0
    /\ callers = {1}
    /\ controller = Local
    /\ pc = [c \in Calls |-> "idle"]
    /\ req = [c \in Calls |-> NoRequest]
    /\ loc = [c \in Calls |-> NoLocals]
    /\ ev = [c \in Calls |-> <<>>]
    /\ pipes = [c \in Calls |-> <<>>]
    /\ out = [c \in Calls |-> NoOutcome]

LoadOutcomes == {LoadSteps[i] : i \in 1..Len(LoadSteps)}

Next ==
    \/ \E d \in Checkpoints \cup {"none"}, fail \in LoadOutcomes :
          update_diffusion_transformer(d, fail)
    \/ \E b \in Names(BaseModels) : update_base_model(b)
    \/ \E l \in Names(LoraModels) : update_lora_model(l)
    \/ \E c \in callers : Submit(c, SessionRequests)
    \/ \E c \in callers : Enter(c)
    \/ \E c \in callers : SyncBase(c)
    \/ \E c \in callers : SyncLora(c)
    \/ \E c \in callers : Validation(c)
    \/ \E c \in callers : Scheduler(c)
    \/ \E c \in callers : Merge(c)
    \/ \E c \in callers : Seed(c)
    \/ \E c \in callers : Dispatch(c)
    \/ \E c \in callers : SingleShot(c)
    \/ \E c \in callers : SingleShotRaises(c)
    \/ \E c \in callers : LongChunk(c)
    \/ \E c \in callers : LongChunkRaises(c)
    \/ \E c \in callers : Except(c)
    \/ \E c \in callers : Post(c)
    \/ \E c \in callers : Log(c)
    \/ \E c \in callers : Save(c)
    \/ \E c \in callers : SaveRaises(c)
    \/ \E c \in callers : Respond(c)

Spec == Init /\ [][Next]_vars

\* the sessions a request may meet: a checkpoint of either kind loaded, or the
\* image-capable one loaded over the plain one with its pipeline assembly failed
Loaded(d) ==
    [vae |-> d, transformer |-> 1, pipeline |-> NewPipeline(d, 1),
     heap |-> <<NewTransformer(d)>>, status |-> "ok"]

Sessions ==
    {[controller |-> k, session |-> Loaded(d)] : k \in {Local, Modelscope}, d \in Checkpoints}
    \cup
    {[controller |-> Local,
      session |-> [vae |-> "i2v", transformer |-> 2, pipeline |-> NewPipeline("t2v", 1),
                   heap |-> <<NewTransformer("t2v"), NewTransformer("i2v")>>,
                   status |-> "failed"]]}

InitRequests ==
    /\ \E s \in Sessions :
          /\ controller = s.controller
          /\ vae = s.session.vae
          /\ transformer = s.session.transformer
          /\ pipeline = s.session.pipeline
          /\ heap = s.session.heap
          /\ lastLoad = [n |-> Len(s.session.heap), status |-> s.session.status]
    /\ base_model_path = None_
    /\ lora_model_path = None_
    /\ logs = <<>>
    /\ files = <<>>
    /\ attempts = MaxAttempts - 1
    /\ callers = {1}
    /\ pc = [c \in Calls |-> "idle"]
    /\ req = [c \in Calls |-> NoRequest]
    /\ loc = [c \in Calls |-> NoLocals]
    /\ ev = [c \in Calls |-> <<>>]
    /\ pipes = [c \in Calls |-> <<>>]
    /\ out = [c \in Calls |-> NoOutcome]

NextRequests ==
    \/ \E c \in callers :
          Submit(c, IF controller = Local THEN Requests ELSE RequestsModelscope)
    \/ \E c \in callers : Enter(c)
    \/ \E c \in callers : SyncBase(c)
    \/ \E c \in callers : SyncLora(c)
    \/ \E c \in callers : Validation(c)
    \/ \E c \in callers : Scheduler(c)
    \/ \E c \in callers : Merge(c)
    \/ \E c \in callers : Seed(c)
    \/ \E c \in callers : Dispatch(c)
    \/ \E c \in callers : SingleShot(c)
    \/ \E c \in callers : SingleShotRaises(c)
    \/ \E c \in callers : LongChunk(c)
    \/ \E c \in callers : LongChunkRaises(c)
    \/ \E c \in callers : Except(c)
    \/ \E c \in callers : Post(c)
    \/ \E c \in callers : Log(c)
    \/ \E c \in callers : Save(c)
    \/ \E c \in callers : SaveRaises(c)
    \/ \E c \in callers : Respond(c)

SpecRequests == InitRequests /\ [][NextRequests]_vars

\* a session with the image-capable checkpoint loaded, serving long-video requests
InitLong ==
    /\ vae = "i2v"
    /\ transformer = 1
    /\ pipeline = NewPipeline("i2v", 1)
    /\ heap = <<NewTransformer("i2v")>>
    /\ base_model_path = None_
    /\ lora_model_path = None_
    /\ logs = <<>>
    /\ files = <<>>
    /\ lastLoad = [n |-> 1, status |-> "ok"]
    /\ attempts = MaxAttempts - 1
    /\ callers = {1}
    /\ controller = Local
    /\ pc = [c \in Calls |-> "idle"]
    /\ req = [c \in Calls |-> NoRequest]
    /\ loc = [c \in Calls |-> NoLocals]
    /\ ev = [c \in Calls |-> <<>>]
    /\ pipes = [c \in Calls |-> <<>>]
    /\ out = [c \in Calls |-> NoOutcome]

NextLong ==
    \/ \E c \in callers : Submit(c, LongRequests)
    \/ \E c \in callers : Enter(c)
    \/ \E c \in callers : SyncBase(c)
    \/ \E c \in callers : SyncLora(c)
    \/ \E c \in callers : Validation(c)
    \/ \E c \in callers : Scheduler(c)
    \/ \E c \in callers : Merge(c)
    \/ \E c \in callers : Seed(c)
    \/ \E c \in callers : Dispatch(c)
    \/ \E c \in callers : LongChunk(c)
    \/ \E c \in callers : LongChunkRaises(c)
    \/ \E c \in callers : Except(c)
    \/ \E c \in callers : Post(c)
    \/ \E c \in callers : Log(c)
    \/ \E c \in callers : Save(c)
    \/ \E c \in callers : SaveRaises(c)
    \/ \E c \in callers : Respond(c)

SpecLong == InitLong /\ [][NextLong]_vars

\* the single-shot requests that differ in the artifact they lead to
FileRequests ==
    {Request(None_, None_, 1, "Generate by", method, L, 5, 2, "none", "none", "none", "43",
             api) :
        method \in {"Video Generation", "Image Generation"}, L \in {1, 9}, api \in BOOLEAN}

\* the numbers of artifacts earlier generations have left in the output directory
Directories == {0, 9, 99, 999}

\* the output directory after n generations
DirectoryAfter(n) ==
    [i \in 1..n |-> [prefix |-> Zfill(Digits(i), 3), ext |-> "mp4", fps |-> 8, frames |-> 9]]

\* a session with a checkpoint loaded, writing into a directory earlier generations used
InitFiles ==
    /\ \E k \in {Local, Modelscope} : controller = k
    /\ vae = "t2v"
    /\ transformer = 1
    /\ pipeline = NewPipeline("t2v", 1)
    /\ heap = <<NewTransformer("t2v")>>
    /\ base_model_path = None_
    /\ lora_model_path = None_
    /\ logs = <<>>
    /\ \E n \in Directories : files = DirectoryAfter(n)
    /\ lastLoad = [n |-> 1, status |-> "ok"]
    /\ attempts = 0
    /\ callers = {1}
    /\ pc = [c \in Calls |-> "idle"]
    /\ req = [c \in Calls |-> NoRequest]
    /\ loc = [c \in Calls |-> NoLocals]
    /\ ev = [c \in Calls |-> <<>>]
    /\ pipes = [c \in Calls |-> <<>>]
    /\ out = [c \in Calls |-> NoOutcome]

NextFiles ==
    \/ \E c \in callers : Submit(c, FileRequests)
    \/ \E c \in callers : Enter(c)
    \/ \E c \in callers : SyncBase(c)
    \/ \E c \in callers : SyncLora(c)
    \/ \E c \in callers : Validation(c)
    \/ \E c \in callers : Scheduler(c)
    \/ \E c \in callers : Merge(c)
    \/ \E c \in callers : Seed(c)
    \/ \E c \in callers : Dispatch(c)
    \/ \E c \in callers : SingleShot(c)
    \/ \E c \in callers : SingleShotRaises(c)
    \/ \E c \in callers : Except(c)
    \/ \E c \in callers : Post(c)
    \/ \E c \in callers : Log(c)
    \/ \E c \in callers : Save(c)
    \/ \E c \in callers : SaveRaises(c)
    \/ \E c \in callers : Respond(c)

SpecFiles == InitFiles /\ [][NextFiles]_vars

\* the requests that differ in the LoRA they stage
LoraRequests ==
    {Request(None_, l, a, "Generate by", "Video Generation", 9, 5, 2, "none", "none", "none",
             "43", api) :
        l \in Names(LoraModels), a \in LoraAlphas, api \in BOOLEAN}

\* a session with a checkpoint loaded, whose generate is called from two threads: the
\* click handler of the interface and the is_api caller, or two click handlers
InitConcurrent ==
    /\ controller = Local
    /\ vae = "t2v"
    /\ transformer = 1
    /\ pipeline = NewPipeline("t2v", 1)
    /\ heap = <<NewTransformer("t2v")>>
    /\ base_model_path = None_
    /\ lora_model_path = None_
    /\ logs = <<>>
    /\ files = <<>>
    /\ lastLoad = [n |-> 1, status |-> "ok"]
    /\ attempts = 0
    /\ callers = Calls
    /\ pc = [c \in Calls |-> "idle"]
    /\ req = [c \in Calls |-> NoRequest]
    /\ loc = [c \in Calls |-> NoLocals]
    /\ ev = [c \in Calls |-> <<>>]
    /\ pipes = [c \in Calls |-> <<>>]
    /\ out = [c \in Calls |-> NoOutcome]

NextConcurrent ==
    \/ \E c \in callers : Submit(c, LoraRequests)
    \/ \E c \in callers : Enter(c)
    \/ \E c \in callers : SyncBase(c)
    \/ \E c \in callers : SyncLora(c)
    \/ \E c \in callers : Validation(c)
    \/ \E c \in callers : Scheduler(c)
    \/ \E c \in callers : Merge(c)
    \/ \E c \in callers : Seed(c)
    \/ \E c \in callers : Dispatch(c)
    \/ \E c \in callers : SingleShot(c)
    \/ \E c \in callers : SingleShotRaises(c)
    \/ \E c \in callers : Except(c)
    \/ \E c \in callers : Post(c)
    \/ \E c \in callers : Log(c)
    \/ \E c \in callers : Save(c)
    \/ \E c \in callers : SaveRaises(c)
    \/ \E c \in callers : Respond(c)

SpecConcurrent == InitConcurrent /\ [][NextConcurrent]_vars

-----------------------------------------------------------------------------
(* What the claims speak of *)

RECURSIVE Count(_, _)
Count(seq, e) ==
    IF seq = <<>> THEN 0 ELSE (IF Head(seq) = e THEN 1 ELSE 0) + Count(Tail(seq), e)

Has(seq, e) == \E i \in 1..Len(seq) : seq[i] = e

\* generate has returned or raised
Ended(c) == pc[c] = "done"

\* a call is in progress or has just ended
Active(c) == pc[c] # "idle"

Staged == lora_model_path # None_

\* no LoRA delta is blended into any transformer's weights
Unmerged == \A t \in 1..Len(heap) : heap[t].lora = NoLora

\* the attempt wrote no log record and no artifact
NothingWritten(c) == Len(logs) = loc[c].logs0 /\ Len(files) = loc[c].files0

\* the attempt neither merged a LoRA nor invoked the pipeline
NothingRun(c) == pipes[c] = <<>> /\ ~Has(ev[c], "merge")

ValidationMessages == {MsgNoReference, MsgNotI2V, MsgNotLong, MsgNoStart}

\* a message for the user: a status returned to the caller, or a gr.Error
UserFacing(o) == o.kind = "return" \/ (o.kind = "raise" /\ o.exc = "gr.Error")

\* the attempt ended with one of the validator's rejections
Rejected(c) ==
    /\ Ended(c)
    /\ out[c].msg \in ValidationMessages
    /\ UserFacing(out[c])
    /\ out[c].artifact = 0

\* the last pipeline invocation of the attempt raised
PipelineRaised(c) == pipes[c] # <<>> /\ pipes[c][Len(pipes[c])].raised

TextToVideoOnly == transformer # 0 /\ ~ImageCapable

-----------------------------------------------------------------------------
(* C1: after any generation attempt has ended, on every exit path, if a    *)
(* LoRA is staged then every merge_lora of the attempt has been reversed   *)
(* by exactly one unmerge_lora with the same path and multiplier: the      *)
(* pipeline is never left with the LoRA merged between attempts.           *)
(* The attempt that raises at the seed (line 253) leaves it merged.        *)

C1_MergeReversedOnEveryExit ==
    \A c \in callers :
        (Ended(c) /\ Staged) =>
            /\ Count(ev[c], "merge") = Count(ev[c], "unmerge")
            /\ Unmerged

-----------------------------------------------------------------------------
(* C2: if a pipeline invocation raises, generate catches the exception,    *)
(* unmerges the LoRA if one is staged and returns the failure message that *)
(* carries the exception's text; nothing propagates to the caller, and no  *)
(* log record and no artifact is written for the attempt.                  *)

C2_PipelineErrorReturned ==
    \A c \in callers :
        PipelineRaised(c) =>
            /\ pc[c] \in {"except", "done"}
            /\ NothingWritten(c)
            /\ Ended(c) =>
                  /\ out[c] = Return(MsgError, "pipeline", 0)
                  /\ Count(ev[c], "merge") = Count(ev[c], "unmerge")
                  /\ Unmerged

C2_Witness ==
    \E c \in callers :
        /\ Ended(c) /\ PipelineRaised(c) /\ Staged
        /\ Has(ev[c], "merge") /\ Has(ev[c], "unmerge")

-----------------------------------------------------------------------------
(* C3: on a text-to-video-only checkpoint (in_channels = latent_channels), *)
(* a request with a start image, and a Long Video Generation request, is   *)
(* rejected before any pipeline invocation and before any LoRA merge.      *)

-----------------------------------------------------------------------------
(* C4: for every long-video request with V < P, the sequence emitted at    *)
(* the end of the chunked loop has exactly L frames.                       *)
(* It has L frames exactly when the frames left at the final chunk,        *)
(* L - init_frames, are congruent to 1 modulo the temporal compression     *)
(* ratio, and fewer otherwise: the final chunk is rounded down.            *)

IsLong(c) == req[c].generation_method = "Long Video Generation"

\* the chunked loop has been left through its break and its result stands
Emitted(c) ==
    /\ IsLong(c)
    /\ \/ pc[c] \in {"post", "log", "save"}
       \/ Ended(c) /\ out[c].msg = "Success"

OverlapFits(c) == req[c].overlap_video_length < req[c].partial_video_length

\* the original statement
C4_EmitsExactlyL ==
    \A c \in callers :
        (Emitted(c) /\ OverlapFits(c)) => Len(loc[c].sample) = req[c].length_slider

\* the amended statement
C4_EmitsLWhenReachable ==
    \A c \in callers :
        (Emitted(c) /\ OverlapFits(c)) =>
            LET L == req[c].length_slider
                left == L - loc[c].init_frames
            IN /\ Len(loc[c].sample) <= L
               /\ Len(loc[c].sample) = L <=> (left - 1) % temporal_compression_ratio(vae) = 0

C4_Witness ==
    \E c \in callers :
        /\ Emitted(c) /\ OverlapFits(c)
        /\ Len(pipes[c]) >= 3
        /\ Len(loc[c].sample) = req[c].length_slider

-----------------------------------------------------------------------------
(* C5: a request with an end image and no start image is rejected before   *)
(* any pipeline invocation; a request with a start image and no end image  *)
(* is accepted, and its conditioning payload is built with the end image   *)
(* unset.                                                                  *)
(* On a text-to-video-only checkpoint the second request is rejected too   *)
(* (for its start image); on an image-capable one it passes validation.    *)

EndOnly(c) == req[c].start_image = "none" /\ req[c].end_image # "none"

StartOnly(c) == req[c].start_image # "none" /\ req[c].end_image = "none"

PayloadsHaveNoEnd(c) == \A i \in 1..Len(pipes[c]) : pipes[c][i].end_image = "none"

\* the original statement
C5_StartOnlyAccepted ==
    \A c \in callers :
        /\ (Active(c) /\ EndOnly(c)) => NothingRun(c) /\ (Ended(c) => Rejected(c))
        /\ (Active(c) /\ StartOnly(c)) => ~Rejected(c) /\ PayloadsHaveNoEnd(c)

\* the amended statement
C5_StartOnlyPassesEndRule ==
    \A c \in callers :
        /\ (Active(c) /\ EndOnly(c)) => NothingRun(c) /\ (Ended(c) => Rejected(c))
        /\ (Active(c) /\ StartOnly(c)) =>
              /\ out[c].msg # MsgNoStart
              /\ ImageCapable => ~Rejected(c)
              /\ PayloadsHaveNoEnd(c)

C5_Witness ==
    \E c \in callers :
        /\ Ended(c) /\ StartOnly(c) /\ ImageCapable
        /\ out[c].msg = "Success"
        /\ Len(pipes[c]) = 1 /\ pipes[c][1].payload = "image"
        /\ pipes[c][1].start_image.kind = "file"

-----------------------------------------------------------------------------
(* C6: the artifact of a successful generation is a still image (.png) if  *)
(* and only if the mode is Image Generation or the requested frame count   *)
(* is 1, and a video (.mp4) at 8 fps otherwise.                            *)

Succeeded(c) == Ended(c) /\ out[c].kind = "return" /\ out[c].msg = "Success"

C6_ArtifactKind ==
    \A c \in callers :
        Succeeded(c) =>
            LET f == files[out[c].artifact]
                still == req[c].generation_method = "Image Generation" \/ req[c].length_slider = 1
            IN /\ out[c].artifact = Len(files)
               /\ f.ext = "png" <=> still
               /\ f.ext # "png" => f.ext = "mp4" /\ f.fps = 8

C6_Witness ==
    \E c \in callers :
        /\ Succeeded(c)
        /\ req[c].generation_method = "Image Generation" /\ req[c].length_slider > 1
        /\ files[out[c].artifact].ext = "png"

-----------------------------------------------------------------------------
(* C7: on the single-shot path an accepted request leads to exactly one    *)
(* pipeline invocation, with frame count L in Video Generation and 1 in    *)
(* Image Generation; plain text-to-video on a text-to-video-only           *)
(* checkpoint carries no conditioning payload.                             *)
(* An accepted request whose seed does not parse (C9) invokes nothing.     *)

Rule1(r) ==
    /\ r.resize_method = "Resize according to Reference"
    /\ r.start_image = "none" /\ r.validation_video = "none"

Rule3(r) == TextToVideoOnly /\ r.start_image # "none"

Rule4(r) == TextToVideoOnly /\ r.generation_method = "Long Video Generation"

Rule5(r) == r.start_image = "none" /\ r.end_image # "none"

\* the rules in the order of the specification, each with its rejection
Rules(r) ==
    <<[violated |-> Rule1(r), msg |-> MsgNoReference],
      [violated |-> Rule3(r), msg |-> MsgNotI2V],
      [violated |-> Rule4(r), msg |-> MsgNotLong],
      [violated |-> Rule5(r), msg |-> MsgNoStart]>>

Violations(r) == {i \in 1..Len(Rules(r)) : Rules(r)[i].violated}

Accepted(c) == Active(c) /\ transformer # 0 /\ Violations(req[c]) = {}

C7_OneCallPerAcceptedRequest ==
    \A c \in callers :
        (Ended(c) /\ Accepted(c) /\ ~IsLong(c)) =>
            /\ Len(pipes[c]) = 1
            /\ pipes[c][1].num_frames =
                  IF req[c].generation_method = "Image Generation" THEN 1
                  ELSE req[c].length_slider
            /\ TextToVideoOnly =>
                  pipes[c][1].payload = "none" /\ pipes[c][1].strength = "none"

-----------------------------------------------------------------------------
(* C8: the validation rules are applied in the order (1), (3), (4), (5);   *)
(* a request that violates several is rejected with the message of the     *)
(* first it violates, and the scheduler rebinding, the LoRA merge and the  *)
(* pipeline invocation do not happen.                                      *)

FirstViolation(r) == CHOOSE i \in Violations(r) : \A j \in Violations(r) : i <= j

C8_FirstViolationReported ==
    \A c \in callers :
        (Active(c) /\ transformer # 0 /\ Violations(req[c]) # {}) =>
            /\ pc[c] \in {"enter", "base", "lora", "validate", "done"}
            /\ NothingRun(c)
            /\ ~Has(ev[c], "scheduler")
            /\ pipeline.scheduler = "Euler"
            /\ Ended(c) =>
                  /\ Rejected(c)
                  /\ out[c].msg = Rules(req[c])[FirstViolation(req[c])].msg

C8_Witness ==
    \E c \in callers :
        /\ Ended(c)
        /\ Rule4(req[c]) /\ Rule5(req[c]) /\ ~Rule1(req[c])
        /\ out[c].msg = MsgNotLong

-----------------------------------------------------------------------------
(* C9: a request whose seed text is empty or not an integer is surfaced to *)
(* the caller as a user-facing message, not a raw exception, with no       *)
(* pipeline invocation, no log record and no artifact.                     *)
(* int(seed_textbox) raises ValueError outside the try block.              *)

C9_BadSeedSurfaced ==
    \A c \in callers :
        (Ended(c) /\ Unparsable(req[c].seed_textbox)) =>
            /\ UserFacing(out[c])
            /\ pipes[c] = <<>>
            /\ NothingWritten(c)

-----------------------------------------------------------------------------
(* C10: if update_diffusion_transformer fails at any step, vae,            *)
(* transformer and pipeline all still refer to what they referred to       *)
(* before: a load replaces all three or changes none.                      *)
(* self.vae and self.transformer are assigned as soon as each is loaded.   *)

LoadFails == lastLoad'.n = lastLoad.n + 1 /\ lastLoad'.status = "failed"

C10_FailedLoadChangesNothing ==
    [][LoadFails => (vae' = vae /\ transformer' = transformer /\ pipeline' = pipeline)]_vars

-----------------------------------------------------------------------------
(* C11: a long-video request whose overlap V is greater than or equal to   *)
(* its per-chunk length P is rejected by validation before the chunked     *)
(* loop starts: the loop is never entered with a cursor that cannot        *)
(* advance.                                                                *)
(* generate has no rule on V and P: the request reaches the loop.          *)

OverlapTooLong(c) ==
    IsLong(c) /\ req[c].overlap_video_length >= req[c].partial_video_length

C11_OverlapRejectedUpstream ==
    \A c \in callers :
        (Active(c) /\ OverlapTooLong(c)) =>
            /\ pc[c] \in {"enter", "base", "lora", "validate", "done"}
            /\ NothingRun(c)
            /\ Ended(c) => UserFacing(out[c]) /\ out[c].msg # "Success"

-----------------------------------------------------------------------------
(* C12: a Long Video Generation request that supplies a reference video is *)
(* never dispatched to the pipeline: it ends with an error message, zero   *)
(* pipeline invocations, no artifact written, and the LoRA unmerged.       *)
(* With a seed that does not parse (C9) it ends with a raw ValueError and  *)
(* the LoRA merged (C1).                                                   *)

LongWithVideo(c) == IsLong(c) /\ req[c].validation_video # "none"

C12_LongWithVideoRefused ==
    \A c \in callers :
        (Active(c) /\ LongWithVideo(c)) =>
            /\ pipes[c] = <<>>
            /\ Len(files) = loc[c].files0
            /\ Ended(c) =>
                  /\ UserFacing(out[c]) /\ out[c].msg # "Success"
                  /\ Unmerged

-----------------------------------------------------------------------------
(* C13: accelerator memory reclamation (gc.collect and the CUDA cache      *)
(* clearing) runs before the first action of every generation attempt and  *)
(* runs again after the attempt's work has ended, whatever the outcome:    *)
(* success, validation rejection or exception.                             *)
(* An attempt that is rejected, or that raises outside the try block,      *)
(* ends with the reclamation of line 198 only.                             *)

\* what an attempt does to the weights and the accelerator
Work == {"scheduler", "merge", "pipeline"}

\* a reclamation after the first one, with none of the attempt's work after it
ReclaimedAfter(c) ==
    \E i \in 2..Len(ev[c]) :
        /\ ev[c][i] = "gc"
        /\ \A j \in i..Len(ev[c]) : ev[c][j] \notin Work

C13_ReclaimedBeforeAndAfter ==
    \A c \in callers :
        /\ (Active(c) /\ pc[c] # "enter") => (ev[c] # <<>> /\ ev[c][1] = "gc")
        /\ Ended(c) => ReclaimedAfter(c)

-----------------------------------------------------------------------------
(* C14: every local generation attempt that ends with "Success" has        *)
(* appended exactly one record to the generation log, and every attempt    *)
(* that is rejected or fails, a failure while writing the artifact         *)
(* included, has appended none; existing records are never modified.       *)
(* The record is appended before the artifact is written, and the          *)
(* Modelscope controller appends none at all.                              *)

\* the records the attempt has appended
Appended(c) == Len(logs) - loc[c].logs0

LogKept == Len(logs') >= Len(logs) /\ SubSeq(logs', 1, Len(logs)) = logs

C14_OneRecordPerSuccess ==
    [][/\ LogKept
       /\ \A c \in callers :
             Ended(c)' => (Appended(c) = IF Succeeded(c) THEN 1 ELSE 0)']_vars

-----------------------------------------------------------------------------
(* C15: across any sequence of successful generations writing into the     *)
(* same output directory, each artifact's file name prefix is the number   *)
(* of files already in the directory plus one, zero-padded to three        *)
(* digits; the prefixes are strictly increasing, and no generation         *)
(* overwrites an artifact written by an earlier one.                       *)

RECURSIVE Value(_)
\* the number a tuple of decimal digits writes
Value(digits) ==
    IF digits = <<>> THEN 0
    ELSE 10 * Value(SubSeq(digits, 1, Len(digits) - 1)) + digits[Len(digits)]

\* padded with zeros up to three digits, and with none beyond
ZeroPadded(digits) == Len(digits) >= 3 /\ (Len(digits) > 3 => digits[1] # 0)

C15_PrefixCountsFiles ==
    /\ \A i \in 1..Len(files) :
          /\ Value(files[i].prefix) = i
          /\ ZeroPadded(files[i].prefix)
          /\ i > 1 => Value(files[i - 1].prefix) < Value(files[i].prefix)
    /\ Cardinality(Listdir) = Len(files)

C15_Witness ==
    \E c \in callers :
        /\ Succeeded(c)
        /\ out[c].artifact = 101
        /\ files[100].prefix = <<1, 0, 0>> /\ files[101].prefix = <<1, 0, 1>>
        /\ files[100].ext # files[101].ext

-----------------------------------------------------------------------------
(* C16: when two generate calls are issued against the same controller,    *)
(* their LoRA brackets never interleave: no merge_lora, no unmerge_lora    *)
(* and no change of the staged LoRA path by one call occurs between the    *)
(* merge_lora and the matching unmerge_lora of the other call.             *)
(* generate takes no lock and the handler is registered without one.       *)

\* the call has merged its LoRA and has neither unmerged it nor ended
InBracket(c) ==
    /\ Active(c) /\ ~Ended(c)
    /\ Count(ev[c], "merge") > Count(ev[c], "unmerge")

\* the call merges or unmerges in this step
Blends(c) ==
    \/ Count(ev'[c], "merge") > Count(ev[c], "merge")
    \/ Count(ev'[c], "unmerge") > Count(ev[c], "unmerge")

C16_BracketsDoNotInterleave ==
    [][\A c, d \in callers :
          (c # d /\ InBracket(d)) => (~Blends(c) /\ lora_model_path' = lora_model_path)]_vars

-----------------------------------------------------------------------------
(* C17: once a pipeline invocation has raised within a generation attempt, *)
(* the attempt makes no further pipeline invocation: a single-shot call is *)
(* not retried and in long-video mode no later chunk is generated; the     *)
(* attempt fails as a whole with no artifact, even if earlier chunks       *)
(* succeeded.                                                              *)

\* the pipeline invocations of the attempt that raised
RaisedCalls(c) == {i \in 1..Len(pipes[c]) : pipes[c][i].raised}

C17_NoCallAfterFailure ==
    \A c \in callers :
        /\ RaisedCalls(c) \subseteq {Len(pipes[c])}
        /\ RaisedCalls(c) # {} =>
              /\ Len(files) = loc[c].files0
              /\ ~Has(ev[c], "file")
              /\ Ended(c) => out[c].msg = MsgError /\ out[c].artifact = 0

C17_Witness ==
    \E c \in callers :
        /\ Ended(c) /\ IsLong(c)
        /\ Len(pipes[c]) = 2 /\ RaisedCalls(c) = {2}
        /\ loc[c].new_sample # <<>>
        /\ out[c].msg = MsgError

-----------------------------------------------------------------------------
(* C18: update_base_model called with a path other than "none" while no    *)
(* checkpoint is loaded fails without applying any weights and leaves the  *)
(* session state unchanged: the path is not recorded as the session's      *)
(* applied base weights (base_model_path).                                 *)
(* Line 146 records the path before line 150 looks for the checkpoint.     *)

\* a step taken while no checkpoint is loaded, which loads none
NoCheckpoint == transformer = 0 /\ transformer' = 0

C18_NoBaseWithoutCheckpoint ==
    [][NoCheckpoint => (base_model_path' = base_model_path /\ heap' = heap)]_vars

-----------------------------------------------------------------------------
(* C19: in every generation attempt with a staged LoRA the steps occur in  *)
(* the order of the state machine: all validation rules pass, then         *)
(* merge_lora, then every pipeline invocation, then exactly one            *)
(* unmerge_lora, then the log append and the artifact write; unmerge_lora  *)
(* never runs before the last pipeline invocation of the attempt and never *)
(* after the artifact is written.                                          *)
(* The attempt that raises at the seed (C1, C9) ends merged, with no       *)
(* unmerge_lora at all.                                                    *)

\* where in the attempt's history the events of a kind are
At(c, kinds) == {i \in 1..Len(ev[c]) : ev[c][i] \in kinds}

\* every event of the first kinds comes before every event of the second
Before(c, first, second) == \A i \in At(c, first), j \in At(c, second) : i < j

C19_StateMachineOrder ==
    \A c \in callers :
        (Active(c) /\ Has(ev[c], "merge")) =>
            /\ Violations(req[c]) = {}
            /\ Count(ev[c], "merge") = 1
            /\ Count(ev[c], "unmerge") <= 1
            /\ Before(c, {"merge"}, {"pipeline"})
            /\ Before(c, {"merge", "pipeline"}, {"unmerge"})
            /\ Before(c, {"unmerge"}, {"log", "file"})
            /\ At(c, {"log", "file"}) # {} => Has(ev[c], "unmerge")
            /\ Ended(c) => Count(ev[c], "unmerge") = 1

-----------------------------------------------------------------------------
(* C20: for every long-video request with 1 <= V < P and L >= 1, every     *)
(* pipeline call succeeding, the chunked loop terminates: the cursor       *)
(* advances by exactly (chunk length - V) > 0 after each non-final chunk,  *)
(* and the loop ends after exactly 1 pipeline invocation when P >= L and   *)
(* after exactly 1 + ceil((L - P) / (P - V)) invocations otherwise.        *)

\* ceil(a / b) for a >= 0 and b > 0
Ceil(a, b) == (a + b - 1) \div b

\* the number of pipeline invocations the claim gives
Invocations(L, P, V) == IF P >= L THEN 1 ELSE 1 + Ceil(L - P, P - V)

\* the sum of (chunk length - V) over the attempt's pipeline invocations so far
RECURSIVE Advanced(_, _)
Advanced(calls, V) ==
    IF calls = <<>> THEN 0 ELSE (Head(calls).num_frames - V) + Advanced(Tail(calls), V)

C20_LoopTerminates ==
    \A c \in callers :
        (Active(c) /\ IsLong(c) /\ OverlapFits(c) /\ RaisedCalls(c) = {}) =>
            LET L == req[c].length_slider
                P == req[c].partial_video_length
                V == req[c].overlap_video_length
            IN /\ Len(pipes[c]) <= Invocations(L, P, V)
               /\ pc[c] = "loop" =>
                     /\ loc[c].init_frames = Advanced(pipes[c], V)
                     /\ \A i \in 1..Len(pipes[c]) : pipes[c][i].num_frames - V > 0
                     /\ Len(pipes[c]) < Invocations(L, P, V)
               /\ Emitted(c) => Len(pipes[c]) = Invocations(L, P, V)

C20_Witness ==
    \E c \in callers :
        /\ Emitted(c) /\ OverlapFits(c) /\ RaisedCalls(c) = {}
        /\ req[c].partial_video_length < req[c].length_slider
        /\ req[c].overlap_video_length > 1
        /\ Len(pipes[c]) = 5
        /\ loc[c].init_frames = 4 * (req[c].partial_video_length - req[c].overlap_video_length)

-----------------------------------------------------------------------------
(* C21: in long-video mode the requested end image conditions exactly one  *)
(* chunk, the last one generated (the one with init + P >= L), and every   *)
(* earlier chunk is conditioned with the end image set to None.            *)

\* the cursor at the attempt's i-th pipeline invocation
CursorAt(c, i) == Advanced(SubSeq(pipes[c], 1, i - 1), req[c].overlap_video_length)

\* the attempt's i-th pipeline invocation generates the final chunk
FinalChunk(c, i) == CursorAt(c, i) + req[c].partial_video_length >= req[c].length_slider

C21_EndImageOnFinalChunkOnly ==
    \A c \in callers :
        (Active(c) /\ IsLong(c)) =>
            /\ \A i \in 1..Len(pipes[c]) :
                  pipes[c][i].end_image = IF FinalChunk(c, i) THEN req[c].end_image ELSE "none"
            /\ \A i \in 1..(Len(pipes[c]) - 1) : ~FinalChunk(c, i)
            /\ Emitted(c) => FinalChunk(c, Len(pipes[c]))

C21_Witness ==
    \E c \in callers :
        /\ Emitted(c)
        /\ req[c].end_image # "none"
        /\ Len(pipes[c]) >= 3
        /\ pipes[c][Len(pipes[c])].end_image = req[c].end_image
        /\ pipes[c][1].end_image = "none"

-----------------------------------------------------------------------------
(* C22: in the long-video loop every non-final chunk (init + P < L) is     *)
(* generated with exactly P frames, and the final chunk (init + P >= L)    *)
(* with the largest frame count n <= L - init that is congruent to 1       *)
(* modulo the VAE temporal compression ratio r, that is,                   *)
(* n = ((L - init - 1) div r) * r + 1.                                     *)

\* n is the largest count of at most left frames congruent to 1 modulo r
LargestDecodable(n, left, r) ==
    /\ n <= left
    /\ n % r = 1 % r
    /\ \A m \in (n + 1)..left : m % r # 1 % r

C22_ChunkLengths ==
    \A c \in callers :
        (Active(c) /\ IsLong(c)) =>
            \A i \in 1..Len(pipes[c]) :
                LET n == pipes[c][i].num_frames
                    left == req[c].length_slider - CursorAt(c, i)
                    r == temporal_compression_ratio(vae)
                IN IF FinalChunk(c, i)
                   THEN /\ LargestDecodable(n, left, r)
                        /\ n = ((left - 1) \div r) * r + 1
                   ELSE n = req[c].partial_video_length

C22_Witness ==
    \E c \in callers :
        /\ Emitted(c)
        /\ Len(pipes[c]) >= 3
        /\ pipes[c][1].num_frames = req[c].partial_video_length
        /\ LET n == pipes[c][Len(pipes[c])].num_frames
           IN /\ n > 1
              /\ n < req[c].length_slider - CursorAt(c, Len(pipes[c]))
              /\ n # req[c].partial_video_length

-----------------------------------------------------------------------------
(* C23: for every chunk after the first, overlap position i (0 <= i < V)   *)
(* of the accumulated sequence becomes previous * (1 - i/V) + new * (i/V): *)
(* the new chunk's weight is 0 at position 0, strictly increases with i    *)
(* and is (V-1)/V < 1 at the last overlap position; the frames of the      *)
(* accumulated sequence before the overlap region are not modified.        *)

\* this step of the loop blends a chunk into the accumulated sequence
BlendsChunk(c) ==
    /\ pc[c] = "loop"
    /\ loc[c].init_frames # 0
    /\ loc'[c].new_sample # loc[c].new_sample

C23_LinearCrossFade ==
    [][\A c \in callers :
          BlendsChunk(c) =>
              LET old == loc[c].new_sample
                  new == loc'[c].new_sample
                  V == req[c].overlap_video_length
                  base == Len(old) - V
              IN /\ base >= 0
                 /\ Len(new) >= Len(old)
                 /\ \A i \in 1..base : new[i] = old[i]
                 /\ \A i \in 0..(V - 1) :
                       LET frame == new[base + i + 1]
                       IN /\ frame.prev = <<old[base + i + 1]>>
                          /\ frame.k = Len(pipes'[c])
                          /\ frame.w = i /\ frame.d = V
                          /\ frame.w < frame.d]_vars

C23_Witness ==
    \E c \in callers :
        /\ IsLong(c) /\ pc[c] = "loop"
        /\ Len(pipes[c]) >= 3
        /\ req[c].overlap_video_length >= 3
        /\ \E i \in 1..Len(loc[c].new_sample) :
              /\ loc[c].new_sample[i].w = req[c].overlap_video_length - 1
              /\ loc[c].new_sample[i].prev # <<>>
              /\ loc[c].new_sample[i].k = 3

-----------------------------------------------------------------------------
(* C24: after each non-final chunk, the start-image conditioning of the    *)
(* next chunk is exactly the last V frames of the accumulated post-blend   *)
(* sequence (not the raw last V frames of the chunk the pipeline just      *)
(* returned), in their original order; the user's original start image     *)
(* conditions only the first chunk.                                        *)

\* this step of the loop invokes the pipeline
InvokesChunk(c) ==
    /\ pc[c] = "loop"
    /\ Len(pipes'[c]) = Len(pipes[c]) + 1

\* the start image the request carries, as generate receives it
UserStart(c) ==
    IF req[c].start_image = "none" THEN NoImage ELSE [kind |-> "file", frames |-> <<>>]

C24_NextStartFromBlended ==
    [][\A c \in callers :
          InvokesChunk(c) =>
              LET call == pipes'[c][Len(pipes'[c])]
                  acc == loc[c].new_sample
                  V == req[c].overlap_video_length
              IN IF pipes[c] = <<>>
                 THEN call.start_image = UserStart(c)
                 ELSE /\ call.start_image.kind = "frames"
                      /\ Len(call.start_image.frames) = V
                      /\ Len(acc) >= V
                      /\ \A i \in 1..V :
                            call.start_image.frames[i] = [uint8 |-> acc[Len(acc) - V + i]]]_vars

C24_Witness ==
    \E c \in callers :
        /\ Emitted(c)
        /\ req[c].start_image # "none"
        /\ Len(pipes[c]) >= 3
        /\ pipes[c][1].start_image = UserStart(c)
        /\ pipes[c][3].start_image.kind = "frames"
        /\ pipes[c][3].start_image.frames[1].uint8.prev # <<>>

-----------------------------------------------------------------------------
(* C25: on the single-shot path every accepted request that supplies a     *)
(* reference video is dispatched as video-to-video: the pipeline is        *)
(* invoked with the video-derived conditioning payload and strength equal  *)
(* to the configured denoise strength; every accepted request that         *)
(* supplies no reference video and runs on an image-capable checkpoint is  *)
(* invoked with the image-derived payload and strength 1.                  *)
(* A reference video sent to a text-to-video-only checkpoint passes the    *)
(* validation and is dropped: lines 342-351 invoke the pipeline with no    *)
(* payload and no strength.                                                *)

\* the attempt runs on the single-shot path
SinglePath(c) == ~(controller = Local /\ IsLong(c))

C25_SingleShotDispatch ==
    \A c \in callers :
        (Active(c) /\ SinglePath(c)) =>
            \A i \in 1..Len(pipes[c]) :
                /\ req[c].validation_video # "none" =>
                      /\ pipes[c][i].payload = "video"
                      /\ pipes[c][i].strength = "denoise_strength"
                /\ (req[c].validation_video = "none" /\ ImageCapable) =>
                      /\ pipes[c][i].payload = "image"
                      /\ pipes[c][i].strength = "1"

-----------------------------------------------------------------------------
(* C26: after any sequence of update_diffusion_transformer,                *)
(* update_base_model and generate calls, whenever generate reaches a       *)
(* pipeline invocation with base_model_dropdown = X other than "none",     *)
(* the weights archive X has been applied to the transformer object that   *)
(* is currently live (applied since that transformer was loaded); in       *)
(* particular the recorded base_model_path never names an archive that     *)
(* was not applied to the current transformer.                             *)
(* update_diffusion_transformer replaces the transformer and leaves        *)
(* base_model_path as it was, so line 205 finds the path already recorded  *)
(* and generate runs the fresh transformer without the archive.            *)

\* the archive named b has been loaded into the live transformer since it was created
AppliedToLive(b) ==
    /\ transformer # 0
    /\ Join(personalized_model_dir, b) \in heap[transformer].base

C26_BaseAppliedToLiveTransformer ==
    /\ \A c \in callers :
          (Active(c) /\ pipes[c] # <<>> /\ req[c].base_model_dropdown # None_) =>
              AppliedToLive(req[c].base_model_dropdown)
    /\ base_model_path # None_ => AppliedToLive(base_model_path)

-----------------------------------------------------------------------------
(* C27: after any sequence of successful or failed checkpoint loads, the   *)
(* dispatch test evaluated in generate (transformer in_channels != VAE     *)
(* latent_channels, read from self.transformer and self.vae) agrees with   *)
(* the variant of the live self.pipeline: a conditioning payload (video,   *)
(* mask_video, strength) is passed only to an inpainting-capable pipeline, *)
(* and a plain pipeline is only ever invoked without one.                  *)
(* A load that fails after line 118 has rebound self.vae and               *)
(* self.transformer and left the previous self.pipeline (C10), and the     *)
(* test then disagrees with the pipeline that is invoked.                  *)

\* the dispatch test of line 258 selects the branch the live pipeline was built for
DispatchAgrees == pipeline # NoPipeline => (ImageCapable <=> pipeline.kind = "inpaint")

C27_DispatchMatchesPipeline ==
    /\ transformer # 0 => DispatchAgrees
    /\ \A c \in callers :
          \A i \in 1..Len(pipes[c]) :
              /\ pipes[c][i].payload # "none" => pipes[c][i].kind = "inpaint"
              /\ pipes[c][i].kind = "plain" => pipes[c][i].payload = "none"

-----------------------------------------------------------------------------
(* C28: in the long-video loop the rounded length of the final chunk is    *)
(* at least 1 whenever the loop body runs (init < L there), so the branch  *)
(* that stops when the rounded length is zero or below is never taken:     *)
(* every loop iteration performs a pipeline invocation with a positive     *)
(* frame count, and the loop is left (other than by an exception) only     *)
(* through the break that follows the final chunk.                         *)

\* the attempt takes a step at the head of the while loop
LoopStep(c) == pc[c] = "loop" /\ <<pc[c], pipes[c], loc[c]>>' # <<pc[c], pipes[c], loc[c]>>

C28_RoundingBreakIsDead ==
    [][\A c \in callers :
          LoopStep(c) =>
              /\ loc[c].init_frames < req[c].length_slider
              /\ Len(pipes'[c]) = Len(pipes[c]) + 1
              /\ pipes'[c][Len(pipes'[c])].num_frames >= 1
              /\ pc'[c] \in {"loop", "post", "except"}
              /\ pc'[c] = "post" => FinalChunk(c, Len(pipes[c]) + 1)
              /\ pc'[c] = "loop" => ~FinalChunk(c, Len(pipes[c]) + 1)]_vars

C28_Witness ==
    \E c \in callers :
        /\ Emitted(c)
        /\ Len(pipes[c]) >= 2
        /\ pipes[c][Len(pipes[c])].num_frames = 1
        /\ req[c].length_slider - CursorAt(c, Len(pipes[c])) = temporal_compression_ratio(vae)

-----------------------------------------------------------------------------
(* C29: for every long-video request with 1 <= V < P whose pipeline calls  *)
(* all succeed, the emitted frame count F satisfies L - r < F <= L, where  *)
(* r is the VAE temporal compression ratio: the output never has more      *)
(* frames than requested and falls short by fewer than r frames,           *)
(* including when the final chunk is shorter than the overlap V.           *)

\* the final chunk of the attempt has fewer frames than the overlap
FinalShorterThanOverlap(c) ==
    /\ Len(pipes[c]) >= 2
    /\ pipes[c][Len(pipes[c])].num_frames < req[c].overlap_video_length

C29_ShortfallBelowRatio ==
    \A c \in callers :
        (Emitted(c) /\ OverlapFits(c) /\ req[c].overlap_video_length >= 1
            /\ RaisedCalls(c) = {}) =>
            LET F == Len(loc[c].sample)
                L == req[c].length_slider
            IN /\ L - temporal_compression_ratio(vae) < F
               /\ F <= L
               /\ FinalShorterThanOverlap(c) =>
                     F = CursorAt(c, Len(pipes[c])) + req[c].overlap_video_length

C29_Witness ==
    \E c \in callers :
        /\ Emitted(c) /\ OverlapFits(c) /\ RaisedCalls(c) = {}
        /\ FinalShorterThanOverlap(c)
        /\ Len(loc[c].sample) = req[c].length_slider - 2

-----------------------------------------------------------------------------
(* C30: whenever a chunk is blended into the accumulated sequence in the   *)
(* long-video loop (every chunk after the first, for 1 <= V < P), that     *)
(* chunk has at least V frames, so overlap position i of the accumulated   *)
(* sequence is mixed with frame i of the new chunk for every 0 <= i < V    *)
(* and the new chunk contributes (chunk length - V) >= 0 appended frames.  *)
(* A final chunk rounded down to one frame is blended against an overlap   *)
(* of two or more: line 300 broadcasts its frame 0 over every overlap      *)
(* position and line 302 appends nothing.                                  *)

\* the frames of the accumulated sequence that came out of a blend
Blended(c) == {i \in 1..Len(loc[c].new_sample) : loc[c].new_sample[i].prev # <<>>}

C30_BlendedChunkCoversOverlap ==
    \A c \in callers :
        (Active(c) /\ IsLong(c) /\ OverlapFits(c) /\ req[c].overlap_video_length >= 1) =>
            /\ \A i \in 2..Len(pipes[c]) :
                  ~pipes[c][i].raised => pipes[c][i].num_frames >= req[c].overlap_video_length
            /\ \A i \in Blended(c) : loc[c].new_sample[i].j = loc[c].new_sample[i].w

====
